---- MODULE Spec2Model ----
(***************************************************************************)
(* trimesh/nearest.py: nearest point on a triangle mesh.                   *)
(*                                                                         *)
(* Coordinates are exact: mesh vertices and query points are integer       *)
(* vectors, a projected point is a vector of numerators over one positive  *)
(* denominator in lowest terms, a squared distance a fraction in lowest    *)
(* terms, and x ** .5 is kept as the symbolic root of its radicand.        *)
(* Indices are 0-based as in the Python source; TLA+ sequences are         *)
(* 1-based, so id k is held at position k + 1.                             *)
(***************************************************************************)
EXTENDS Integers, Sequences, FiniteSets

(* ------------------------------ bounds --------------------------------- *)
MaxFaces == 2
MaxPoints == 2

(* positions a mesh may take its vertices from, no three collinear *)
VertexPool ==
  << <<2, 0, 0>>, <<2, 0, 1>>, <<0, 2, 1>>, <<2, 2, 1>>, <<0, 0, 0>> >>

(* positions a query batch may take its rows from *)
QueryPool == { <<0, 0, 0>>, <<3, 3, 3>> }

(* tol.merge, a fraction of a grid unit: tol_merge / TolScale *)
tol_merge == 1
TolScale == 2

(* ------------------------------ arithmetic ----------------------------- *)
Abs(x) == IF x < 0 THEN -x ELSE x

RECURSIVE GCD(_, _)
GCD(a, b) == IF b = 0 THEN a ELSE GCD(b, a % b)

Sub(u, v) == <<u[1] - v[1], u[2] - v[2], u[3] - v[3]>>

Dot(u, v) == u[1] * v[1] + u[2] * v[2] + u[3] * v[3]

(* a fraction n / d, d > 0, in lowest terms *)
Frac(n, d) ==
  LET g == GCD(Abs(n), d) IN [n |-> n \div g, d |-> d \div g]

FracLess(r, s) == r.n * s.d < s.n * r.d

(* the point num / den, den > 0, in lowest terms *)
Pt(num, den) ==
  LET g == GCD(GCD(GCD(Abs(num[1]), Abs(num[2])), Abs(num[3])), den)
  IN  [num |-> <<num[1] \div g, num[2] \div g, num[3] \div g>>,
       den |-> den \div g]

(* a + (s / d) * dir *)
Along(a, dir, s, d) ==
  Pt(<<a[1] * d + s * dir[1], a[2] * d + s * dir[2], a[3] * d + s * dir[3]>>, d)

(* x ** .5, the principal root, by its radicand *)
Sqrt(r) == [sqrt |-> r]

(* ((close - point) ** 2).sum() for one row *)
SqDist(close, point) ==
  LET dx == close.num[1] - point[1] * close.den
      dy == close.num[2] - point[2] * close.den
      dz == close.num[3] - point[3] * close.den
  IN  Frac(dx * dx + dy * dy + dz * dz, close.den * close.den)

(* ------------------------------ numpy ---------------------------------- *)
(* an ndarray built from a comprehension: the rows held as one array *)
array(rows) == rows \o << >>

SeqSum(s, k) == LET f[j \in 0..k] == IF j = 0 THEN 0 ELSE f[j - 1] + s[j] IN f[k]

(* np.cumsum *)
cumsum(s) == array([k \in 1..Len(s) |-> SeqSum(s, k)])

(* ary[st:end] for 0 <= st *)
Slice(ary, st, end) ==
  LET hi == IF end < Len(ary) THEN end ELSE Len(ary)
  IN  IF st >= hi THEN << >> ELSE array([k \in 1..(hi - st) |-> ary[st + k]])

(* np.array_split(ary, indices): ary[:i1], ary[i1:i2], ..., ary[in:] *)
array_split(ary, indices) ==
  LET div == <<0>> \o indices \o <<Len(ary)>>
  IN  array([k \in 1..(Len(indices) + 1) |-> Slice(ary, div[k], div[k + 1])])

(* np.vstack of a sequence of arrays *)
vstack(arrays) ==
  LET f[k \in 0..Len(arrays)] == IF k = 0 THEN << >> ELSE f[k - 1] \o arrays[k]
  IN  f[Len(arrays)]

(* np.tile(point, (n, 1)) *)
tile(point, n) == array([k \in 1..n |-> point])

(* an argmin that keeps the last position holding the minimum *)
argmin_last(distance) ==
  IF distance = << >> THEN -1
  ELSE (CHOOSE k \in 1..Len(distance) :
          /\ \A j \in 1..Len(distance) : ~FracLess(distance[j], distance[k])
          /\ \A j \in (k + 1)..Len(distance) : FracLess(distance[k], distance[j])) - 1

(* ndarray.argmin: the first position holding the minimum, 0-based; -1
   stands for the ValueError numpy raises on an empty sequence *)
argmin(distance) ==
  IF distance = << >> THEN -1
  ELSE (CHOOSE k \in 1..Len(distance) :
          /\ \A j \in 1..Len(distance) : ~FracLess(distance[j], distance[k])
          /\ \A j \in 1..(k - 1) : FracLess(distance[k], distance[j])) - 1

(* util.is_shape(array, pattern): same rank, each axis equal or -1 *)
is_shape(shape, pattern) ==
  /\ Len(shape) = Len(pattern)
  /\ \A k \in 1..Len(pattern) : pattern[k] = -1 \/ shape[k] = pattern[k]

(* ------------------------------ the mesh ------------------------------- *)
(* mesh.triangles: the (n,3,3) array vertices[faces] *)
triangles(m) ==
  array([f \in 1..Len(m.faces) |->
           <<m.vertices[m.faces[f][1] + 1],
             m.vertices[m.faces[f][2] + 1],
             m.vertices[m.faces[f][3] + 1]>>])

(* triangles.closest_point for one (triangle, point) pair: the point of
   the triangle nearest to p, by Voronoi region of the triangle *)
ClosestOnTriangle(t, p) ==
  LET a == t[1]
      b == t[2]
      c == t[3]
      ab == Sub(b, a)
      ac == Sub(c, a)
      ap == Sub(p, a)
      bp == Sub(p, b)
      cp == Sub(p, c)
      d1 == Dot(ab, ap)
      d2 == Dot(ac, ap)
      d3 == Dot(ab, bp)
      d4 == Dot(ac, bp)
      d5 == Dot(ab, cp)
      d6 == Dot(ac, cp)
      vc == d1 * d4 - d3 * d2
      vb == d5 * d2 - d1 * d6
      va == d3 * d6 - d5 * d4
      denom == va + vb + vc
  IN  IF d1 <= 0 /\ d2 <= 0 THEN Pt(a, 1)
      ELSE IF d3 >= 0 /\ d4 <= d3 THEN Pt(b, 1)
      ELSE IF vc <= 0 /\ d1 >= 0 /\ d3 <= 0 THEN Along(a, ab, d1, d1 - d3)
      ELSE IF d6 >= 0 /\ d5 <= d6 THEN Pt(c, 1)
      ELSE IF vb <= 0 /\ d2 >= 0 /\ d6 <= 0 THEN Along(a, ac, d2, d2 - d6)
      ELSE IF va <= 0 /\ d4 - d3 >= 0 /\ d5 - d6 >= 0
        THEN Along(b, Sub(c, b), d4 - d3, (d4 - d3) + (d5 - d6))
      ELSE Pt(<<a[1] * denom + ab[1] * vb + ac[1] * vc,
                a[2] * denom + ab[2] * vb + ac[2] * vc,
                a[3] * denom + ab[3] * vb + ac[3] * vc>>, denom)

(* triangles.closest_point on corresponding rows *)
closest_point_corresponding(tris, pts) ==
  array([k \in 1..Len(tris) |-> ClosestOnTriangle(tris[k], pts[k])])

(* squared Euclidean distance of two integer vectors *)
Norm2(u) == Dot(u, u)

(* the vertex ids a nearest-vertex query may return for a point *)
NearestVertices(m, p) ==
  {v \in 0..(Len(m.vertices) - 1) :
     \A w \in 0..(Len(m.vertices) - 1) :
        Norm2(Sub(p, m.vertices[v + 1])) <= Norm2(Sub(p, m.vertices[w + 1]))}

(* axis-aligned bounds of a triangle, in units of 1 / TolScale *)
TriBounds(t) ==
  [lo |-> [k \in 1..3 |-> TolScale *
             (IF t[1][k] <= t[2][k] /\ t[1][k] <= t[3][k] THEN t[1][k]
              ELSE IF t[2][k] <= t[3][k] THEN t[2][k] ELSE t[3][k])],
   hi |-> [k \in 1..3 |-> TolScale *
             (IF t[1][k] >= t[2][k] /\ t[1][k] >= t[3][k] THEN t[1][k]
              ELSE IF t[2][k] >= t[3][k] THEN t[2][k] ELSE t[3][k])]]

BoxesIntersect(x, y) ==
  \A k \in 1..3 : x.lo[k] <= y.hi[k] /\ y.lo[k] <= x.hi[k]

(* rtree.intersection(b): the ids of the triangles whose bounds meet b,
   in the order `order` the tree enumerates its entries in *)
rtree_intersection(m, order, b) ==
  SelectSeq(order, LAMBDA f : BoxesIntersect(TriBounds(triangles(m)[f + 1]), b))

(* kdtree.query(rows): per row the distance to and the id of the nearest
   vertex; kd names the vertex the tree returns where several are nearest *)
kdtree_query(m, rows, kd) ==
  [distance |-> array([k \in 1..Len(rows) |->
                   Sqrt(Frac(Norm2(Sub(rows[k], m.vertices[kd[rows[k]] + 1])), 1))]),
   index |-> array([k \in 1..Len(rows) |-> kd[rows[k]]])]

(* ------------------------------ nearby_faces --------------------------- *)
(* the per-axis half-extents without np.abs *)
distance_vertex_signed(m, rows, nearest) ==
  array([k \in 1..Len(rows) |->
     array([a \in 1..3 |->
        TolScale * (rows[k][a] - m.vertices[nearest[k] + 1][a]) + tol_merge])])

(* np.abs(points - mesh.vertices[nearest]) + tol.merge, in units of
   1 / TolScale *)
distance_vertex(m, rows, nearest) ==
  array([k \in 1..Len(rows) |->
     array([a \in 1..3 |->
        TolScale * Abs(rows[k][a] - m.vertices[nearest[k] + 1][a]) + tol_merge])])

(* np.column_stack((points - distance_vertex, points + distance_vertex)) *)
bounds(rows, dv) ==
  array([k \in 1..Len(rows) |->
     [lo |-> array([a \in 1..3 |-> TolScale * rows[k][a] - dv[k][a]]),
      hi |-> array([a \in 1..3 |-> TolScale * rows[k][a] + dv[k][a]])]])

(* what a call leaves behind: the error raised (or "none"), whether the
   r-tree and the k-d tree were obtained, and the values computed *)
Outcome(e, rt, kt, nearest, cands) ==
  [err |-> e, rtree |-> rt, kdtree |-> kt, nearest |-> nearest, candidates |-> cands]

(* nearby_faces obtaining the trees before it looks at the shape *)
nearby_faces_late_check(m, pts, kd, order) ==
  IF ~is_shape(pts.shape, <<-1, 3>>)
    THEN Outcome("shape", TRUE, TRUE, << >>, << >>)
    ELSE LET nearest == kdtree_query(m, pts.data, kd).index
             b == bounds(pts.data, distance_vertex(m, pts.data, nearest))
         IN  Outcome("none", TRUE, TRUE, nearest,
                     array([k \in 1..Len(b) |-> rtree_intersection(m, order, b[k])]))

nearby_faces(m, pts, kd, order) ==
  IF ~is_shape(pts.shape, <<-1, 3>>)
    THEN Outcome("shape", FALSE, FALSE, << >>, << >>)
    ELSE LET nearest == kdtree_query(m, pts.data, kd).index
             b == bounds(pts.data, distance_vertex(m, pts.data, nearest))
         IN  Outcome("none", TRUE, TRUE, nearest,
                     array([k \in 1..Len(b) |-> rtree_intersection(m, order, b[k])]))

(* ------------------------------ closest_point_naive -------------------- *)
Zero3 == [num |-> <<0, 0, 0>>, den |-> 1]

Returned(e, cl, di, ti) ==
  [err |-> e, closest |-> cl, distance |-> di, triangle_id |-> ti]

closest_point_naive(m, pts) ==
  LET tris == triangles(m)
  IN  IF ~is_shape(<<Len(tris), 3, 3>>, <<-1, 3, 3>>)
        THEN Returned("shape", << >>, << >>, << >>)
      ELSE IF ~is_shape(pts.shape, <<-1, 3>>)
        THEN Returned("shape", << >>, << >>, << >>)
      ELSE
        LET rows == pts.data
            points_tiled == array([i \in 1..Len(rows) |-> tile(rows[i], Len(tris))])
            on_triangle == array([i \in 1..Len(rows) |->
                              closest_point_corresponding(tris, points_tiled[i])])
            distance_2 == array([i \in 1..Len(rows) |->
                             array([t \in 1..Len(tris) |->
                                      SqDist(on_triangle[i][t], rows[i])])])
            triangle_id == array([i \in 1..Len(rows) |-> argmin(distance_2[i])])
        IN  IF \E i \in 1..Len(rows) : triangle_id[i] < 0
              THEN Returned("empty", << >>, << >>, << >>)
              ELSE Returned("none",
                     [i \in 1..Len(rows) |-> on_triangle[i][triangle_id[i] + 1]],
                     [i \in 1..Len(rows) |-> Sqrt(distance_2[i][triangle_id[i] + 1])],
                     triangle_id)

(* ------------------------------ closest_point -------------------------- *)
(* the split offsets one past the cumulative counts *)
query_group_off_by_one(cands) ==
  LET c == cumsum([k \in 1..Len(cands) |-> Len(cands[k])])
  IN  array([k \in 1..(Len(c) - 1) |-> c[k] + 1])

(* np.cumsum([len(i) for i in candidates])[:-1] *)
query_group(cands) ==
  LET c == cumsum([k \in 1..Len(cands) |-> Len(cands[k])])
  IN  SubSeq(c, 1, Len(c) - 1)

Row(e, cl, ti, di) == [err |-> e, close |-> cl, tid |-> ti, distance |-> di]

(* the loop body leaving the zero-initialised row for an empty group *)
result_row_skip_empty(close_points, distance, candidate) ==
  LET idx == argmin(distance)
  IN  IF idx < 0 THEN Row("none", Zero3, 0, Frac(0, 1))
      ELSE IF idx >= Len(candidate) THEN Row("index", Zero3, 0, Frac(0, 1))
      ELSE Row("none", close_points[idx + 1], candidate[idx + 1], distance[idx + 1])

(* the loop body storing the position in the group as the triangle id *)
result_row_position(close_points, distance, candidate) ==
  LET idx == argmin(distance)
  IN  IF idx < 0 THEN Row("empty", Zero3, 0, Frac(0, 1))
      ELSE IF idx >= Len(candidate) THEN Row("index", Zero3, 0, Frac(0, 1))
      ELSE Row("none", close_points[idx + 1], idx, distance[idx + 1])

(* the loop body storing the distance of the group's first entry *)
result_row_first_distance(close_points, distance, candidate) ==
  LET idx == argmin(distance)
  IN  IF idx < 0 THEN Row("empty", Zero3, 0, Frac(0, 1))
      ELSE IF idx >= Len(candidate) THEN Row("index", Zero3, 0, Frac(0, 1))
      ELSE Row("none", close_points[idx + 1], candidate[idx + 1], distance[1])

(* one pass of the loop: idx = distance.argmin() raises on an empty group,
   candidate[idx] raises past the end of the candidate list *)
result_row(close_points, distance, candidate) ==
  LET idx == argmin(distance)
  IN  IF idx < 0 THEN Row("empty", Zero3, 0, Frac(0, 1))
      ELSE IF idx >= Len(candidate) THEN Row("index", Zero3, 0, Frac(0, 1))
      ELSE Row("none", close_points[idx + 1], candidate[idx + 1], distance[idx + 1])

Min(x, y) == IF x <= y THEN x ELSE y

(* closest_point: [err, closest, distance, triangle_id] and the locals
   nearest, candidates, rtree, kdtree of the call *)
closest_point(m, pts, kd, order) ==
  IF ~is_shape(pts.shape, <<-1, 3>>)
    THEN [out |-> Returned("shape", << >>, << >>, << >>),
          nf |-> Outcome("shape", FALSE, FALSE, << >>, << >>)]
  ELSE
    LET rows == pts.data
        nf == nearby_faces(m, pts, kd, order)
        cands == nf.candidates
        tris == triangles(m)
        query_point == vstack(array([i \in 1..Len(rows) |->
                                       tile(rows[i], Len(cands[i]))]))
        query_tri == vstack(array([i \in 1..Len(rows) |->
                         array([k \in 1..Len(cands[i]) |-> tris[cands[i][k] + 1]])]))
        query_close == closest_point_corresponding(query_tri, query_point)
        qg == query_group(cands)
        distance_2 == array([k \in 1..Len(query_close) |->
                               SqDist(query_close[k], query_point[k])])
        close_groups == array_split(query_close, qg)
        distance_groups == array_split(distance_2, qg)
        n == Min(Min(Len(rows), Len(close_groups)), Len(cands))
        row == array([i \in 1..n |->
                        result_row(close_groups[i], distance_groups[i], cands[i])])
        failed == {i \in 1..n : row[i].err # "none"}
    IN  IF failed # {}
          THEN [out |-> Returned(row[CHOOSE i \in failed : \A j \in failed : i <= j].err,
                                 << >>, << >>, << >>),
                nf |-> nf]
          ELSE [out |-> Returned("none",
                  [i \in 1..Len(rows) |-> IF i <= n THEN row[i].close ELSE Zero3],
                  [i \in 1..Len(rows) |->
                     Sqrt(IF i <= n THEN row[i].distance ELSE Frac(0, 1))],
                  [i \in 1..Len(rows) |-> IF i <= n THEN row[i].tid ELSE 0]),
                nf |-> nf]

(* ------------------------------ Nearest -------------------------------- *)
(* Nearest.vertex: tree.query(points) with no look at the shape first; the
   tree itself rejects rows that are not of length 3, and answers a single
   (3,) point with one distance and one id *)
Nearest_vertex(m, pts, kd) ==
  IF pts.shape[Len(pts.shape)] # 3
    THEN [err |-> "query", kdtree |-> TRUE, distance |-> << >>, vertex_id |-> << >>]
    ELSE LET rows == IF Len(pts.shape) = 1 THEN <<pts.data>> ELSE pts.data
             q == kdtree_query(m, rows, kd)
         IN  [err |-> "none", kdtree |-> TRUE,
              distance |-> q.distance, vertex_id |-> q.index]

(* ------------------------------ state ---------------------------------- *)
VARIABLES
  mesh,          \* [vertices, faces]: the mesh the calls are made on
  points,        \* [shape, data]: the points argument of the calls
  op,            \* the entry point called last, "none" before any call
  err,           \* the error the call raised, "none" if it returned
  rtree_used,    \* the call obtained mesh.triangles_tree()
  kdtree_used,   \* the call obtained mesh.kdtree()
  nearest,       \* kdtree.query(points)[1] inside nearby_faces
  candidates,    \* the candidate lists nearby_faces computed
  closest,       \* returned closest points
  distance,      \* returned distances
  triangle_id,   \* returned triangle ids
  vertex_id      \* returned vertex ids (Nearest.vertex)

vars == <<mesh, points, op, err, rtree_used, kdtree_used, nearest, candidates,
          closest, distance, triangle_id, vertex_id>>

(* the k-th smallest member of a set of integers *)
Kth(S, k) == CHOOSE x \in S : Cardinality({y \in S : y < x}) = k - 1

(* the faces over n vertices, vertex ids ascending *)
Faces(n) ==
  {<<i, j, k>> : i \in 0..(n - 1), j \in 0..(n - 1), k \in 0..(n - 1)} \cap
  {f \in (0..(n - 1)) \X (0..(n - 1)) \X (0..(n - 1)) : f[1] < f[2] /\ f[2] < f[3]}

(* order of two faces in the face list *)
FaceBefore(f, g) ==
  \/ f[1] < g[1]
  \/ f[1] = g[1] /\ f[2] < g[2]
  \/ f[1] = g[1] /\ f[2] = g[2] /\ f[3] < g[3]

(* the meshes: three or more pool positions as the vertices, in pool order,
   and one to MaxFaces distinct faces over them; a vertex no face uses is
   allowed, as Trimesh allows it *)
Meshes ==
  {[vertices |-> [k \in 1..Cardinality(S) |-> VertexPool[Kth(S, k)]], faces |-> fs] :
     <<S, fs>> \in
       {sf \in (SUBSET (1..Len(VertexPool))) \X
               UNION {[1..n -> Faces(Len(VertexPool))] : n \in 1..MaxFaces} :
          /\ Cardinality(sf[1]) >= 3
          /\ \A k \in 1..Len(sf[2]) : sf[2][k][3] < Cardinality(sf[1])
          /\ \A k \in 1..(Len(sf[2]) - 1) : FaceBefore(sf[2][k], sf[2][k + 1])}}

(* the points arguments: (n,3) batches over the query pool, and two
   arrays that are not (n,3) *)
PointInputs ==
  {[shape |-> <<Len(d), 3>>, data |-> d] :
     d \in UNION {[1..n -> QueryPool] : n \in 1..MaxPoints}}
  \cup {[shape |-> <<1, 2>>, data |-> << <<0, 0>> >>],
        [shape |-> <<3>>, data |-> <<0, 0, 0>>]}

(* the rows a nearest-vertex query is made for *)
QueryRows(pts) ==
  IF is_shape(pts.shape, <<-1, 3>>) THEN {pts.data[k] : k \in 1..Len(pts.data)}
  ELSE IF pts.shape = <<3>> THEN {pts.data}
  ELSE {}

(* the answers the k-d tree may give: per queried position one of its
   nearest vertices, the same one each time the position is queried *)
KdChoices(m, pts) ==
  LET nv == [p \in QueryRows(pts) |-> NearestVertices(m, p)]
  IN  {kd \in [QueryRows(pts) -> UNION {nv[p] : p \in QueryRows(pts)}] :
         \A p \in QueryRows(pts) : kd[p] \in nv[p]}

(* the orders the r-tree may enumerate its entries in *)
RtreeOrders(m) ==
  {o \in [1..Len(m.faces) -> 0..(Len(m.faces) - 1)] :
     \A j, k \in 1..Len(m.faces) : j # k => o[j] # o[k]}

Init ==
  /\ mesh \in Meshes
  /\ points \in PointInputs
  /\ op = "none"
  /\ err = "none"
  /\ rtree_used = FALSE
  /\ kdtree_used = FALSE
  /\ nearest = << >>
  /\ candidates = << >>
  /\ closest = << >>
  /\ distance = << >>
  /\ triangle_id = << >>
  /\ vertex_id = << >>

(* A behaviour is one call on one input: the entry points keep no state
   between calls, so a call is made from the state before any call. *)
NearbyFaces ==
  /\ op = "none"
  /\ \E kd \in KdChoices(mesh, points), order \in RtreeOrders(mesh) :
      LET r == nearby_faces(mesh, points, kd, order)
      IN  /\ op' = "nearby_faces"
          /\ err' = r.err
          /\ rtree_used' = r.rtree
          /\ kdtree_used' = r.kdtree
          /\ nearest' = r.nearest
          /\ candidates' = r.candidates
          /\ closest' = << >>
          /\ distance' = << >>
          /\ triangle_id' = << >>
          /\ vertex_id' = << >>
          /\ UNCHANGED <<mesh, points>>

ClosestPointNaive ==
  LET r == closest_point_naive(mesh, points)
  IN  /\ op = "none"
      /\ op' = "closest_point_naive"
      /\ err' = r.err
      /\ rtree_used' = FALSE
      /\ kdtree_used' = FALSE
      /\ nearest' = << >>
      /\ candidates' = << >>
      /\ closest' = r.closest
      /\ distance' = r.distance
      /\ triangle_id' = r.triangle_id
      /\ vertex_id' = << >>
      /\ UNCHANGED <<mesh, points>>

Finish(name, r) ==
  /\ op' = name
  /\ err' = r.out.err
  /\ rtree_used' = r.nf.rtree
  /\ kdtree_used' = r.nf.kdtree
  /\ nearest' = r.nf.nearest
  /\ candidates' = r.nf.candidates
  /\ closest' = r.out.closest
  /\ distance' = r.out.distance
  /\ triangle_id' = r.out.triangle_id
  /\ vertex_id' = << >>
  /\ UNCHANGED <<mesh, points>>

ClosestPoint ==
  /\ op = "none"
  /\ \E kd \in KdChoices(mesh, points), order \in RtreeOrders(mesh) :
      Finish("closest_point", closest_point(mesh, points, kd, order))

(* Nearest.on_surface: closest_point(mesh=self.mesh, points=points) *)
OnSurface ==
  /\ op = "none"
  /\ \E kd \in KdChoices(mesh, points), order \in RtreeOrders(mesh) :
      Finish("on_surface", closest_point(mesh, points, kd, order))

Vertex ==
  /\ op = "none"
  /\ \E kd \in KdChoices(mesh, points) :
      LET r == Nearest_vertex(mesh, points, kd)
      IN  /\ op' = "vertex"
          /\ err' = r.err
          /\ rtree_used' = FALSE
          /\ kdtree_used' = r.kdtree
          /\ nearest' = << >>
          /\ candidates' = << >>
          /\ closest' = << >>
          /\ distance' = r.distance
          /\ triangle_id' = << >>
          /\ vertex_id' = r.vertex_id
          /\ UNCHANGED <<mesh, points>>

Next == NearbyFaces \/ ClosestPointNaive \/ ClosestPoint \/ OnSurface \/ Vertex

Spec == Init /\ [][Next]_vars

(* ------------------------------ properties ----------------------------- *)
(* the points argument is an (m,3) array *)
Valid == is_shape(points.shape, <<-1, 3>>)

(* closest_point was called, directly or through Nearest.on_surface *)
CP == op \in {"closest_point", "on_surface"}

Elems(s) == {s[k] : k \in 1..Len(s)}

(* the vertex ids some face uses *)
Referenced(m) == UNION {Elems(m.faces[f]) : f \in 1..Len(m.faces)}

(* every vertex of the mesh belongs to a face *)
WellFormed(m) == Referenced(m) = 0..(Len(m.vertices) - 1)

(* what the all-pairs method returns on the same input *)
Naive == closest_point_naive(mesh, points)

(* squared distance from point p to triangle id t of the mesh *)
TriSqDist(t, p) == SqDist(ClosestOnTriangle(triangles(mesh)[t + 1], p), p)

Cross(u, v) ==
  <<u[2] * v[3] - u[3] * v[2], u[3] * v[1] - u[1] * v[3], u[1] * v[2] - u[2] * v[1]>>

(* the point q = num / den lies on triangle t, boundary included: it is in
   the plane of t and its barycentric coordinates are in [0, 1] *)
OnTriangle(q, t) ==
  LET a == t[1]
      ab == Sub(t[2], a)
      ac == Sub(t[3], a)
      w == <<q.num[1] - a[1] * q.den, q.num[2] - a[2] * q.den, q.num[3] - a[3] * q.den>>
      d00 == Dot(ab, ab)
      d01 == Dot(ab, ac)
      d11 == Dot(ac, ac)
      w0 == Dot(w, ab)
      w1 == Dot(w, ac)
      det == d00 * d11 - d01 * d01
      sdet == d11 * w0 - d01 * w1
      tdet == d00 * w1 - d01 * w0
  IN  /\ Dot(w, Cross(ab, ac)) = 0
      /\ sdet >= 0
      /\ tdet >= 0
      /\ sdet + tdet <= q.den * det

(* the row the reduction gives for one point p and one candidate list:
   the first entry of least squared distance *)
RowOf(p, cand) ==
  LET d == array([j \in 1..Len(cand) |-> TriSqDist(cand[j], p)])
      k == CHOOSE k \in 1..Len(cand) :
             /\ \A j \in 1..Len(cand) : ~FracLess(d[j], d[k])
             /\ \A j \in 1..(k - 1) : FracLess(d[k], d[j])
  IN  <<ClosestOnTriangle(triangles(mesh)[cand[k] + 1], p), Sqrt(d[k]), cand[k]>>

(* the candidates of row i that achieve the least squared distance *)
Tied(i) ==
  LET d == array([j \in 1..Len(candidates[i]) |->
                    TriSqDist(candidates[i][j], points.data[i])])
  IN  {candidates[i][k] : k \in {k \in 1..Len(d) : \A j \in 1..Len(d) : ~FracLess(d[j], d[k])}}

(* C1: on a mesh whose vertices all belong to faces, closest_point returns,
   and each of its rows has the distance closest_point_naive returns and
   either the same closest point and triangle id, or another triangle at
   that same distance with its projection. *)
C1_Equivalence ==
  (CP /\ Valid /\ WellFormed(mesh)) =>
    /\ err = "none"
    /\ \A i \in 1..Len(points.data) :
         /\ distance[i] = Naive.distance[i]
         /\ \/ /\ triangle_id[i] = Naive.triangle_id[i]
               /\ closest[i] = Naive.closest[i]
            \/ /\ Sqrt(TriSqDist(triangle_id[i], points.data[i])) = Naive.distance[i]
               /\ closest[i] =
                    ClosestOnTriangle(triangles(mesh)[triangle_id[i] + 1], points.data[i])

(* C2: on a mesh whose vertices all belong to faces, the candidate list of
   each query point contains the triangle the all-pairs method returns for
   that point. *)
C2_CullingSound ==
  (op \in {"nearby_faces", "closest_point", "on_surface"} /\ Valid /\ WellFormed(mesh)) =>
    \A i \in 1..Len(points.data) : Naive.triangle_id[i] \in Elems(candidates[i])

FarOutside(p) ==
  \A a \in 1..3 :
     \/ \A v \in 1..Len(mesh.vertices) : p[a] > mesh.vertices[v][a]
     \/ \A v \in 1..Len(mesh.vertices) : p[a] < mesh.vertices[v][a]

C4_OrderPreserved ==
  (CP /\ Valid /\ err = "none") =>
    /\ Len(closest) = Len(points.data)
    /\ \A i \in 1..Len(points.data) :
         <<closest[i], distance[i], triangle_id[i]>> = RowOf(points.data[i], candidates[i])
    /\ \A i, j \in 1..Len(points.data) :
         points.data[i] = points.data[j] =>
           /\ closest[i] = closest[j]
           /\ distance[i] = distance[j]
           /\ triangle_id[i] = triangle_id[j]

C4_Witness ==
  /\ op = "closest_point"
  /\ err = "none"
  /\ Len(points.data) = 2
  /\ points.data[1] # points.data[2]
  /\ Len(candidates[1]) # Len(candidates[2])
  /\ triangle_id[1] # triangle_id[2]

(* C5: when the candidate list of some query point is empty, closest_point
   raises and returns nothing, also for the other points of the batch. *)
C5_EmptyFails ==
  (CP /\ Valid /\ \E i \in 1..Len(candidates) : candidates[i] = << >>) =>
    /\ err # "none"
    /\ closest = << >>
    /\ distance = << >>
    /\ triangle_id = << >>

C5_Witness ==
  /\ op = "closest_point"
  /\ Valid
  /\ err = "empty"
  /\ \E i, j \in 1..Len(candidates) : candidates[i] = << >> /\ candidates[j] # << >>

(* C6: nearby_faces, closest_point and closest_point_naive on a points
   argument that is not (m,3) raise the shape error with neither tree
   obtained and nothing returned. *)
C6_ShapeFirst ==
  (op \in {"nearby_faces", "closest_point", "on_surface", "closest_point_naive"} /\ ~Valid) =>
    /\ err = "shape"
    /\ ~rtree_used
    /\ ~kdtree_used
    /\ candidates = << >>
    /\ closest = << >>
    /\ distance = << >>
    /\ triangle_id = << >>

C6_Witness ==
  /\ op = "nearby_faces"
  /\ ~Valid
  /\ err = "shape"

(* C7: Nearest.vertex on a points argument that is not (m,3) raises the
   shape error before the k-d tree is queried. *)
C7_VertexValidates ==
  (op = "vertex" /\ ~Valid) => (err = "shape" /\ ~kdtree_used)

(* C8: each returned distance is the non-negative root of the squared
   distance between its query point and its returned closest point. *)
C8_DistanceOfRow ==
  (CP /\ err = "none") =>
    \A i \in 1..Len(points.data) :
       /\ distance[i] = Sqrt(SqDist(closest[i], points.data[i]))
       /\ distance[i].sqrt.n >= 0
       /\ distance[i].sqrt.d > 0

C8_Witness ==
  /\ op = "closest_point"
  /\ err = "none"
  /\ \E i \in 1..Len(points.data) :
       /\ Len(candidates[i]) >= 2
       /\ triangle_id[i] # candidates[i][1]
       /\ distance[i].sqrt.n > 0

(* C9: each returned closest point lies on the triangle of the returned id,
   which is an id of a mesh triangle taken from the point's candidate list,
   and point, distance and id belong to the same candidate. *)
C9_OnReturnedTriangle ==
  (CP /\ err = "none") =>
    \A i \in 1..Len(points.data) :
       /\ triangle_id[i] \in 0..(Len(mesh.faces) - 1)
       /\ triangle_id[i] \in Elems(candidates[i])
       /\ OnTriangle(closest[i], triangles(mesh)[triangle_id[i] + 1])
       /\ closest[i] = ClosestOnTriangle(triangles(mesh)[triangle_id[i] + 1], points.data[i])
       /\ distance[i] = Sqrt(TriSqDist(triangle_id[i], points.data[i]))

C9_Witness ==
  /\ op = "closest_point"
  /\ err = "none"
  /\ \E i \in 1..Len(points.data) :
       \E k \in 1..Len(candidates[i]) :
          /\ candidates[i][k] = triangle_id[i]
          /\ k - 1 # triangle_id[i]
          /\ closest[i].den > 1

(* C10 as stated: among the candidates tied at the least squared distance
   the one with the lowest triangle id is returned. *)
C10_LowestIdWins ==
  (CP /\ err = "none") =>
    \A i \in 1..Len(points.data) :
       \A t \in Tied(i) : triangle_id[i] <= t

(* C10 amended: among the candidates tied at the least squared distance the
   one that comes first in the candidate list is returned, whatever order
   the r-tree listed the ids in. *)
C10_FirstListedWins ==
  (CP /\ err = "none") =>
    \A i \in 1..Len(points.data) :
       LET tied == Tied(i)
       IN  \E k \in 1..Len(candidates[i]) :
              /\ candidates[i][k] = triangle_id[i]
              /\ candidates[i][k] \in tied
              /\ \A j \in 1..(k - 1) : candidates[i][j] \notin tied

C10_Witness ==
  /\ op = "closest_point"
  /\ err = "none"
  /\ \E i \in 1..Len(points.data) :
       /\ Cardinality(Tied(i)) >= 2
       /\ \E t \in Tied(i) : t < triangle_id[i]

====
